---- MODULE Spec2Model ----
(***************************************************************************)
(* gopv: the mpv JSON-IPC client (Client, its writer and reader goroutines, *)
(* the request, listener and observer registries) as a state machine.       *)
(* Every goroutine is a process; a step is one statement or one critical    *)
(* section of the Go source.                                                *)
(***************************************************************************)
EXTENDS Integers, Sequences, FiniteSets, TLC

\* ------------------------------------------------------------------ bounds
\* Public operations started by callers, and returns of ReadBytes on the open
\* connection (a line, a transient error or io.EOF), over one run.
MaxOps == 2
MaxFrames == 2

\* ------------------------------------------------------------- input sets
Callers == {"c1", "c2"}          \* goroutines calling the public API
Bgs == {"g1"}                    \* goroutines started by `go c.Request(...)`
Procs == Callers \cup Bgs
ObsIds == {1, 2}                 \* values rand.Int() returns for observer ids
Events == {"e1", "e2"}           \* event names
ErrStrings == {"success", "property not found"}
Datas == {"50"}                  \* JSON payloads ("nil" stands for null / no value)

VARIABLES
    closed,        \* Client.closed
    receiver,      \* Client.receiver, an unbuffered channel: "open" | "closed"
    conn,          \* Client.conn: "open" | "closed" (closed locally)
    wire,          \* the complete lines written on conn, in order
    requests,      \* Client.requests: RequestID -> [p, chan]
    listeners,     \* Client.listeners: [isNil, m: event -> callback]
    listenerMu,    \* Client.listenerMu: "free" or the process holding it
    observers,     \* Client.observers: id -> callback (a nil map reads as empty)
    pc,            \* where each calling goroutine stands
    op,            \* the public operation each calling goroutine is in
    req,           \* the ipcRequest each calling goroutine built
    result,        \* what the last public operation of each goroutine returned
                   \* (in ObserveProperty: what its Request has returned)
    wpc, wreq,     \* Client.write: position, and the request it is handling
    rpc, rframe,   \* Client.read: position, and the response it decoded last
    tasks,         \* callback invocations started on goroutines of their own
    errs,          \* number of calls of publishError (each reaches onError when it is not nil)
    panic,         \* "none", or the run-time panic that ended the program
                   \* (Go's message, and the channel it is about)
    nops, nframes  \* operations started, reads returned

vars == <<closed, receiver, conn, wire, requests, listeners, listenerMu,
          observers, pc, op, req, result, wpc, wreq, rpc, rframe, tasks,
          errs, panic, nops, nframes>>

\* rand.Int() for a RequestID: the draws of one run are pairwise distinct (63
\* random bits each); the n-th operation started draws 6 + n.
Ids == {6 + nops + 1}

\* ------------------------------------------------------------ map helpers
EmptyMap == [x \in {} |-> 0]
Put(m, k, v) == [x \in DOMAIN m \cup {k} |-> IF x = k THEN v ELSE m[x]]
Del_Keeps(m, k) == m

Del(m, k) == [x \in DOMAIN m \ {k} |-> m[x]]

\* ----------------------------------------------------------------- values
NoCmd == [name |-> "", event |-> "", id |-> 0]
NoReq == [id |-> 0, cmd |-> NoCmd, async |-> FALSE]
NoOp == [name |-> "none", event |-> "", id |-> 0, cb |-> ""]
NoFrame == [event |-> "", error |-> "", data |-> "nil", rid |-> 0, id |-> 0,
            eventData |-> "nil"]
NilErr == [kind |-> "nil", status |-> ""]
ErrClosed == [kind |-> "ErrClosed", status |-> ""]
MpvError(s) == [kind |-> "MpvError", status |-> s]
\* A public operation's return values; rid is the RequestID of the response
\* requestSend received (0 when it received none).
NoResult == [val |-> "nil", err |-> NilErr, id |-> 0, rid |-> 0]

NoWreq == [p |-> "", req |-> NoReq]

Running == panic = "none"

\* Some call of Close() has returned: c.conn.Close() is its last statement.
CloseReturned == conn = "closed"

\* ---------------------------------------------------------- pure helpers
\* publishError(err): one more error handed on (to c.onError, when that is
\* not nil).  The count saturates at ErrCap: read() reports for ever once conn
\* is closed locally.
ErrCap == MaxOps + MaxFrames + 1
publishError(n) == IF n >= ErrCap THEN n ELSE n + 1

\* json.Marshal(req): fails on a command holding a value JSON cannot encode.
Marshalable(r) == r.cmd.name # "chan_value"

RequestResult_KeepsData(response) ==
    [val |-> response.data,
     err |-> IF response.error # "success" THEN MpvError(response.error)
             ELSE NilErr,
     id |-> 0, rid |-> response.rid]

\* requestSend, after the reply was received: Error # "success" gives
\* (nil, &MpvError{Error}), else (Data, nil).
RequestResult(response) ==
    IF response.error # "success"
    THEN [val |-> "nil", err |-> MpvError(response.error), id |-> 0,
          rid |-> response.rid]
    ELSE [val |-> response.data, err |-> NilErr, id |-> 0,
          rid |-> response.rid]

ClosedResult == [val |-> "nil", err |-> ErrClosed, id |-> 0, rid |-> 0]

SeesClosed_Never == FALSE

\* requestSend's guard: the value of c.closed it reads.
SeesClosed == closed

Matched_Oldest(reqs, response) ==
    IF DOMAIN reqs = {} THEN {}
    ELSE {CHOOSE i \in DOMAIN reqs : \A j \in DOMAIN reqs : i <= j}

\* dispatch, case "": the registry entry the response is delivered to.
Matched(reqs, response) ==
    IF response.rid \in DOMAIN reqs THEN {response.rid} ELSE {}

AfterDelivery_NoDelete(reqs, rid) == [reqs EXCEPT ![rid].chan = "closed"]

\* dispatch, case "": close(request.responseChan); delete(c.requests, id).
AfterDelivery(reqs, rid) ==
    Del([reqs EXCEPT ![rid].chan = "closed"], rid)

\* RegisterListener's branch: the enable_event request is issued only when
\* the map exists and holds no listener for the event.
NeedsEnable(ls, event) == ~ls.isNil /\ event \notin DOMAIN ls.m

ListenAfter_Always(ls, o, res) ==
    [isNil |-> FALSE, m |-> Put(ls.m, o.event, o.cb)]

\* RegisterListener after its request returned: c.listeners[event] = listener
\* unless the request failed.
ListenAfter(ls, o, res) ==
    IF res.err.kind # "nil" THEN ls
    ELSE [isNil |-> FALSE, m |-> Put(ls.m, o.event, o.cb)]

\* ObserveProperty after its request returned: c.observers[id] = observer
\* unless the request failed.
ObserveAfter(obs, o, res) ==
    IF res.err.kind # "nil" THEN obs ELSE Put(obs, o.id, o.cb)

\* The return of requestSend (with res) to the public operation o of
\* goroutine p, and the rest of that operation.
Complete(p, o, res) ==
    /\ req' = [req EXCEPT ![p] = NoReq]
    /\ CASE o.name = "RegisterListener" ->
              /\ pc' = [pc EXCEPT ![p] = "idle"]
              /\ op' = [op EXCEPT ![p] = NoOp]
              /\ listeners' = ListenAfter(listeners, o, res)
              /\ listenerMu' = "free"
              /\ observers' = observers
              /\ result' = [result EXCEPT ![p] = [res EXCEPT !.val = "nil"]]
         [] o.name = "ObserveProperty" ->
              \* if err != nil { return 0, err }; else on to c.observerMu.Lock()
              /\ pc' = [pc EXCEPT ![p] =
                           IF res.err.kind # "nil" THEN "idle" ELSE "store"]
              /\ op' = [op EXCEPT ![p] =
                           IF res.err.kind # "nil" THEN NoOp ELSE o]
              /\ UNCHANGED <<listeners, listenerMu, observers>>
              /\ result' = [result EXCEPT ![p] = [res EXCEPT !.val = "nil"]]
         [] o.name = "go Request" ->
              /\ pc' = [pc EXCEPT ![p] = "idle"]
              /\ op' = [op EXCEPT ![p] = NoOp]
              /\ UNCHANGED <<listeners, listenerMu, observers, result>>
         [] OTHER ->
              /\ pc' = [pc EXCEPT ![p] = "idle"]
              /\ op' = [op EXCEPT ![p] = NoOp]
              /\ UNCHANGED <<listeners, listenerMu, observers>>
              /\ result' = [result EXCEPT ![p] = res]

\* requestSend entered by goroutine p for operation o with request r:
\* if c.closed { return nil, ErrClosed }, else on to c.receiver <- request.
\* RegisterListener holds listenerMu from here to its return.
requestSend(p, o, r) ==
    IF SeesClosed
    THEN Complete(p, o, ClosedResult)
    ELSE /\ pc' = [pc EXCEPT ![p] = "send"]
         /\ op' = [op EXCEPT ![p] = o]
         /\ req' = [req EXCEPT ![p] = r]
         /\ listenerMu' = IF o.name = "RegisterListener" THEN p ELSE listenerMu
         /\ UNCHANGED <<result, listeners, observers>>

\* ------------------------------------------------------------------- Init
Init ==
    /\ closed = FALSE
    /\ receiver = "open"
    /\ conn = "open"
    /\ wire = <<>>
    /\ requests = EmptyMap
    /\ listeners = [isNil |-> TRUE, m |-> EmptyMap]
    /\ listenerMu = "free"
    /\ observers = EmptyMap
    /\ pc = [p \in Procs |-> "idle"]
    /\ op = [p \in Procs |-> NoOp]
    /\ req = [p \in Procs |-> NoReq]
    /\ result = [p \in Procs |-> NoResult]
    /\ wpc = "recv"
    /\ wreq = NoWreq
    /\ rpc = "read"
    /\ rframe = NoFrame
    /\ tasks = {}
    /\ errs = 0
    /\ panic = "none"
    /\ nops = 0
    /\ nframes = 0

\* ------------------------------------------------- requests (public API)
UserCmds == {"get_property", "chan_value"}

\* Request: requestInternal(command, true) builds the request and calls
\* requestSend.
Request(c) ==
    /\ Running /\ pc[c] = "idle" /\ nops < MaxOps
    /\ nops' = nops + 1
    /\ \E id \in Ids, cmd \in UserCmds :
         requestSend(c, [NoOp EXCEPT !.name = "Request"],
                     [id |-> id, cmd |-> [NoCmd EXCEPT !.name = cmd],
                      async |-> TRUE])
    /\ UNCHANGED <<closed, receiver, conn, wire, requests, wpc, wreq, rpc,
                   rframe, tasks, errs, panic, nframes>>

\* RequestSync: requestInternal(command, false).
RequestSync(c) ==
    /\ Running /\ pc[c] = "idle" /\ nops < MaxOps
    /\ nops' = nops + 1
    /\ \E id \in Ids :
         requestSend(c, [NoOp EXCEPT !.name = "RequestSync"],
                     [id |-> id, cmd |-> [NoCmd EXCEPT !.name = "get_property"],
                      async |-> FALSE])
    /\ UNCHANGED <<closed, receiver, conn, wire, requests, wpc, wreq, rpc,
                   rframe, tasks, errs, panic, nframes>>

\* A goroutine started by `go c.Request(...)` enters requestSend.
RequestSendCheck(g) ==
    /\ Running /\ pc[g] = "check"
    /\ requestSend(g, op[g], req[g])
    /\ UNCHANGED <<closed, receiver, conn, wire, requests, wpc, wreq, rpc,
                   rframe, tasks, errs, panic, nops, nframes>>

\* requestSend: c.receiver <- request, received by write()'s <-c.receiver.
RequestSendHandoff(p) ==
    /\ Running /\ pc[p] = "send" /\ receiver = "open" /\ wpc = "recv"
    /\ wreq' = [p |-> p, req |-> req[p]]
    /\ wpc' = "marshal"
    /\ pc' = [pc EXCEPT ![p] = "wait"]
    /\ UNCHANGED <<closed, receiver, conn, wire, requests, listeners,
                   listenerMu, observers, op, req, result, rpc, rframe, tasks,
                   errs, panic, nops, nframes>>

\* requestSend: c.receiver <- request on a closed channel panics, whether the
\* channel was closed before the send or while the sender was blocked in it.
RequestSendPanic(p) ==
    /\ Running /\ pc[p] = "send" /\ receiver = "closed"
    /\ panic' = "send on closed channel: c.receiver"
    /\ UNCHANGED <<closed, receiver, conn, wire, requests, listeners,
                   listenerMu, observers, pc, op, req, result, wpc, wreq, rpc,
                   rframe, tasks, errs, nops, nframes>>

\* ------------------------------------------------------------------ Close
\* Close: c.closed = true
Close(c) ==
    /\ Running /\ pc[c] = "idle" /\ nops < MaxOps
    /\ closed' = TRUE
    /\ pc' = [pc EXCEPT ![c] = "close2"]
    /\ op' = [op EXCEPT ![c] = [NoOp EXCEPT !.name = "Close"]]
    /\ nops' = nops + 1
    /\ UNCHANGED <<receiver, conn, wire, requests, listeners, listenerMu,
                   observers, req, result, wpc, wreq, rpc, rframe, tasks, errs,
                   panic, nframes>>

\* Close: close(c.receiver); closing a closed channel panics.
CloseReceiver(c) ==
    /\ Running /\ pc[c] = "close2"
    /\ IF receiver = "closed"
       THEN /\ panic' = "close of closed channel: c.receiver"
            /\ UNCHANGED <<receiver, pc>>
       ELSE /\ receiver' = "closed"
            /\ pc' = [pc EXCEPT ![c] = "close3"]
            /\ panic' = panic
    /\ UNCHANGED <<closed, conn, wire, requests, listeners, listenerMu,
                   observers, op, req, result, wpc, wreq, rpc, rframe, tasks,
                   errs, nops, nframes>>

\* Close: c.conn.Close(), then Close returns.
CloseConn(c) ==
    /\ Running /\ pc[c] = "close3"
    /\ conn' = "closed"
    /\ pc' = [pc EXCEPT ![c] = "idle"]
    /\ op' = [op EXCEPT ![c] = NoOp]
    /\ UNCHANGED <<closed, receiver, wire, requests, listeners, listenerMu,
                   observers, req, result, wpc, wreq, rpc, rframe, tasks, errs,
                   panic, nops, nframes>>

\* ------------------------------------------------------------ writer loop
\* write: req, ok := <-c.receiver; if !ok { return }
WriterExit ==
    /\ Running /\ wpc = "recv" /\ receiver = "closed"
    /\ wpc' = "done"
    /\ UNCHANGED <<closed, receiver, conn, wire, requests, listeners,
                   listenerMu, observers, pc, op, req, result, wreq, rpc,
                   rframe, tasks, errs, panic, nops, nframes>>

WriterRegister_Skips ==
    /\ Running /\ wpc = "marshal"
    /\ IF Marshalable(wreq.req)
       THEN wpc' = "write" /\ wreq' = wreq /\ errs' = errs
       ELSE wpc' = "recv" /\ wreq' = NoWreq /\ errs' = publishError(errs)
    /\ UNCHANGED <<closed, receiver, conn, wire, requests, listeners,
                   listenerMu, observers, pc, op, req, result, rpc, rframe,
                   tasks, panic, nops, nframes>>

\* write: json.Marshal(req); on success c.requests[req.RequestID] = req
\* under requestMu.
WriterRegister ==
    /\ Running /\ wpc = "marshal"
    /\ IF Marshalable(wreq.req)
       THEN /\ requests' = Put(requests, wreq.req.id,
                               [p |-> wreq.p, chan |-> "open"])
            /\ wpc' = "write"
            /\ wreq' = wreq
            /\ errs' = errs
       ELSE /\ errs' = publishError(errs)
            /\ wpc' = "recv"
            /\ wreq' = NoWreq
            /\ requests' = requests
    /\ UNCHANGED <<closed, receiver, conn, wire, listeners, listenerMu,
                   observers, pc, op, req, result, rpc, rframe, tasks,
                   panic, nops, nframes>>

\* A write on conn fails when conn was closed locally; on an open conn the
\* environment may fail it (a broken pipe).
WriteOk(fault) == conn = "open" /\ ~fault

WriterWrite_StopsOnError ==
    /\ Running /\ wpc = "write"
    /\ \E fault \in BOOLEAN :
         IF WriteOk(fault)
         THEN wire' = Append(wire, wreq.req) /\ errs' = errs /\ wpc' = "recv"
         ELSE wire' = wire /\ errs' = publishError(errs) /\ wpc' = "done"
    /\ wreq' = NoWreq
    /\ UNCHANGED <<closed, receiver, conn, requests, listeners, listenerMu,
                   observers, pc, op, req, result, rpc, rframe, tasks,
                   panic, nops, nframes>>

\* write: c.conn.Write(body), then c.conn.Write([]byte{'\n'}); the line is
\* on the wire when both succeed, else publishError and continue.
WriterWrite ==
    /\ Running /\ wpc = "write"
    /\ \E fault \in BOOLEAN :
         IF WriteOk(fault)
         THEN wire' = Append(wire, wreq.req) /\ errs' = errs
         ELSE wire' = wire /\ errs' = publishError(errs)
    /\ wpc' = "recv"
    /\ wreq' = NoWreq
    /\ UNCHANGED <<closed, receiver, conn, requests, listeners, listenerMu,
                   observers, pc, op, req, result, rpc, rframe, tasks,
                   panic, nops, nframes>>

\* ------------------------------------------------------------- dispatch
\* The lines the remote process can send: a reply to a command it received
\* (possibly again), a named event, a property-change notification.
WrittenIds == {wire[i].id : i \in 1..Len(wire)}
ReplyFrames ==
    {[NoFrame EXCEPT !.error = e, !.data = d, !.rid = i] :
        e \in ErrStrings, d \in Datas, i \in WrittenIds}
EventFrames == {[NoFrame EXCEPT !.event = ev] : ev \in Events}
PropertyFrames ==
    {[NoFrame EXCEPT !.event = "property-change", !.id = i, !.data = d] :
        i \in ObsIds, d \in Datas}
Frames == ReplyFrames \cup EventFrames \cup PropertyFrames

Observer_Any(obs, id) ==
    IF id \in DOMAIN obs THEN {obs[id]} ELSE {obs[x] : x \in DOMAIN obs}

\* dispatch, case "property-change": observer, ok := c.observers[response.ID]
\* (a nil map has no key).
Observer(obs, id) == IF id \in DOMAIN obs THEN {obs[id]} ELSE {}

\* dispatch, default case: takes listenerMu.
NeedsListenerMu(response) ==
    response.event # "" /\ response.event # "property-change"

Invoke_Inline(ts, cb, arg, n) ==
    [tasks |-> ts \cup {[cb |-> cb, arg |-> arg, frame |-> n]},
     reader |-> "callback"]

\* `go observer(response.Data)` / `go listener(response.EventData)`: the
\* callback is started on a goroutine of its own (it may never return) and
\* the reader goes on to its next read.
Invoke(ts, cb, arg, n) ==
    [tasks |-> ts \cup {[cb |-> cb, arg |-> arg, frame |-> n]},
     reader |-> "read"]

\* dispatch(response), from taking the registry's lock to releasing it.
dispatch(response) ==
    CASE response.event = "" ->
           /\ UNCHANGED tasks
           /\ rpc' = "read"
           /\ IF Matched(requests, response) = {}
              THEN UNCHANGED <<requests, pc, op, req, result, listeners,
                               listenerMu, observers, panic>>
              ELSE \E rid \in Matched(requests, response) :
                     IF requests[rid].chan = "closed"
                     THEN /\ panic' = "send on closed channel: responseChan"
                          /\ UNCHANGED <<requests, pc, op, req, result,
                                         listeners, listenerMu, observers>>
                     ELSE /\ pc[requests[rid].p] = "wait"
                          /\ Complete(requests[rid].p, op[requests[rid].p],
                                      RequestResult(response))
                          /\ requests' = AfterDelivery(requests, rid)
                          /\ panic' = panic
      [] response.event = "property-change" ->
           /\ IF Observer(observers, response.id) # {}
              THEN \E observer \in Observer(observers, response.id) :
                     LET r == Invoke(tasks, observer, response.data,
                                     nframes + 1)
                     IN tasks' = r.tasks /\ rpc' = r.reader
              ELSE tasks' = tasks /\ rpc' = "read"
           /\ UNCHANGED <<requests, pc, op, req, result, listeners,
                          listenerMu, observers, panic>>
      [] OTHER ->
           /\ listenerMu = "free"
           /\ IF ~listeners.isNil /\ response.event \in DOMAIN listeners.m
              THEN LET r == Invoke(tasks, listeners.m[response.event],
                                   response.eventData, nframes + 1)
                   IN tasks' = r.tasks /\ rpc' = r.reader
              ELSE tasks' = tasks /\ rpc' = "read"
           /\ UNCHANGED <<requests, pc, op, req, result, listeners,
                          listenerMu, observers, panic>>

\* ------------------------------------------------------------ reader loop
\* read: ReadBytes returns a line, it decodes, dispatch(response).  When the
\* frame is a named event and listenerMu is held, the reader blocks in
\* dispatch on listenerMu.Lock() (rpc = "lock").  listenerMu is held across
\* steps only by a RegisterListener waiting for the reply to its enable_event,
\* which only the reader delivers: the lock is never granted, and "lock" has
\* no step out of it.
ReaderRead ==
    /\ Running /\ rpc = "read" /\ conn = "open" /\ nframes < MaxFrames
    /\ \E f \in Frames :
         IF NeedsListenerMu(f) /\ listenerMu # "free"
         THEN /\ rpc' = "lock"
              /\ rframe' = f
              /\ UNCHANGED <<requests, pc, op, req, result, listeners,
                             listenerMu, observers, panic, tasks, nframes>>
         ELSE /\ dispatch(f)
              /\ rframe' = f
              /\ nframes' = nframes + 1
    /\ UNCHANGED <<closed, receiver, conn, wire, wpc, wreq, errs, nops>>

\* read: ReadBytes fails with an error that is not io.EOF (always so once
\* conn was closed locally): publishError, continue.
ReaderReadError ==
    /\ Running /\ rpc = "read"
    /\ conn = "closed" \/ nframes < MaxFrames
    /\ errs' = publishError(errs)
    /\ nframes' = IF conn = "open" THEN nframes + 1 ELSE nframes
    /\ UNCHANGED <<closed, receiver, conn, wire, requests, listeners,
                   listenerMu, observers, pc, op, req, result, wpc, wreq, rpc,
                   rframe, tasks, panic, nops>>

ReaderDecodeError_Stops ==
    /\ Running /\ rpc = "read" /\ conn = "open"
    /\ nframes < MaxFrames
    /\ errs' = publishError(errs)
    /\ nframes' = nframes + 1
    /\ rpc' = "done"
    /\ UNCHANGED <<closed, receiver, conn, wire, requests, listeners,
                   listenerMu, observers, pc, op, req, result, wpc, wreq,
                   rframe, tasks, panic, nops>>

\* read: the line does not decode: publishError, continue.
ReaderDecodeError ==
    /\ Running /\ rpc = "read" /\ conn = "open"
    /\ nframes < MaxFrames
    /\ errs' = publishError(errs)
    /\ nframes' = nframes + 1
    /\ UNCHANGED <<closed, receiver, conn, wire, requests, listeners,
                   listenerMu, observers, pc, op, req, result, wpc, wreq, rpc,
                   rframe, tasks, panic, nops>>

ReaderEOF_Returns ==
    /\ Running /\ rpc = "read" /\ conn = "open" /\ nframes < MaxFrames
    /\ rpc' = "done"
    /\ nframes' = nframes + 1
    /\ UNCHANGED <<closed, receiver, conn, wire, requests, listeners,
                   listenerMu, observers, pc, op, req, result, wpc, wreq,
                   rframe, tasks, errs, panic, nops>>

\* read: io.EOF (the remote process closed the stream): c.Close(), whose
\* first statement is c.closed = true.
ReaderEOF ==
    /\ Running /\ rpc = "read" /\ conn = "open" /\ nframes < MaxFrames
    /\ closed' = TRUE
    /\ rpc' = "close2"
    /\ nframes' = nframes + 1
    /\ UNCHANGED <<receiver, conn, wire, requests, listeners, listenerMu,
                   observers, pc, op, req, result, wpc, wreq, rframe, tasks,
                   errs, panic, nops>>

\* read, in c.Close(): close(c.receiver)
ReaderCloseReceiver ==
    /\ Running /\ rpc = "close2"
    /\ IF receiver = "closed"
       THEN /\ panic' = "close of closed channel: c.receiver"
            /\ UNCHANGED <<receiver, rpc>>
       ELSE /\ receiver' = "closed"
            /\ rpc' = "close3"
            /\ panic' = panic
    /\ UNCHANGED <<closed, conn, wire, requests, listeners, listenerMu,
                   observers, pc, op, req, result, wpc, wreq, rframe, tasks,
                   errs, nops, nframes>>

\* read, in c.Close(): c.conn.Close(); then read returns.
ReaderCloseConn ==
    /\ Running /\ rpc = "close3"
    /\ conn' = "closed"
    /\ rpc' = "done"
    /\ UNCHANGED <<closed, receiver, wire, requests, listeners, listenerMu,
                   observers, pc, op, req, result, wpc, wreq, rframe, tasks,
                   errs, panic, nops, nframes>>

\* ---------------------------------------------- listeners and observers
\* `go c.Request(name, ...)`: a new goroutine that enters requestInternal.
Spawn(g, cmd) ==
    /\ pc[g] = "idle"
    /\ \E id \in Ids :
         req' = [req EXCEPT ![g] = [id |-> id, cmd |-> cmd, async |-> TRUE]]
    /\ op' = [op EXCEPT ![g] = [NoOp EXCEPT !.name = "go Request"]]
    /\ pc' = [pc EXCEPT ![g] = "check"]

\* RegisterListener: under listenerMu, make the map when it is nil, else
\* Request("enable_event", event) when the event has no listener, then store.
RegisterListener(c) ==
    /\ Running /\ pc[c] = "idle" /\ nops < MaxOps /\ listenerMu = "free"
    /\ nops' = nops + 1
    /\ \E event \in Events :
         IF NeedsEnable(listeners, event)
         THEN \E id \in Ids :
                requestSend(c,
                    [NoOp EXCEPT !.name = "RegisterListener",
                                 !.event = event, !.cb = c],
                    [id |-> id,
                     cmd |-> [NoCmd EXCEPT !.name = "enable_event",
                                           !.event = event],
                     async |-> TRUE])
         ELSE /\ listeners' = [isNil |-> FALSE, m |-> Put(listeners.m, event, c)]
              /\ result' = [result EXCEPT ![c] = NoResult]
              /\ UNCHANGED <<listenerMu, observers, req, op, pc>>
    /\ UNCHANGED <<closed, receiver, conn, wire, requests, wpc, wreq, rpc,
                   rframe, tasks, errs, panic, nframes>>

\* UnregisterListener: delete under listenerMu, then go Request("disable_event").
UnregisterListener(c) ==
    /\ Running /\ pc[c] = "idle" /\ nops < MaxOps /\ listenerMu = "free"
    /\ nops' = nops + 1
    /\ \E event \in Events, g \in Bgs :
         /\ listeners' = [listeners EXCEPT !.m = Del(listeners.m, event)]
         /\ Spawn(g, [NoCmd EXCEPT !.name = "disable_event", !.event = event])
    /\ UNCHANGED <<closed, receiver, conn, wire, requests, listenerMu,
                   observers, result, wpc, wreq, rpc, rframe, tasks, errs,
                   panic, nframes>>

\* ObserveProperty: id := rand.Int(); Request("observe_property", id, property).
ObserveProperty(c) ==
    /\ Running /\ pc[c] = "idle" /\ nops < MaxOps
    /\ nops' = nops + 1
    /\ \E oid \in ObsIds, id \in Ids :
         requestSend(c,
             [NoOp EXCEPT !.name = "ObserveProperty", !.id = oid, !.cb = c],
             [id |-> id,
              cmd |-> [NoCmd EXCEPT !.name = "observe_property", !.id = oid],
              async |-> TRUE])
    /\ UNCHANGED <<closed, receiver, conn, wire, requests, wpc, wreq, rpc,
                   rframe, tasks, errs, panic, nframes>>

\* ObserveProperty after its Request succeeded: under observerMu,
\* c.observers[id] = observer; return id, err.
ObserveStore(c) ==
    /\ Running /\ pc[c] = "store"
    /\ observers' = ObserveAfter(observers, op[c], result[c])
    /\ result' = [result EXCEPT ![c].id = op[c].id]
    /\ pc' = [pc EXCEPT ![c] = "idle"]
    /\ op' = [op EXCEPT ![c] = NoOp]
    /\ UNCHANGED <<closed, receiver, conn, wire, requests, listeners,
                   listenerMu, req, wpc, wreq, rpc, rframe, tasks, errs,
                   panic, nops, nframes>>

\* UnobserveProperty: delete under observerMu, then
\* go Request("unobserve_property", id).
UnobserveProperty(c) ==
    /\ Running /\ pc[c] = "idle" /\ nops < MaxOps
    /\ nops' = nops + 1
    /\ \E oid \in ObsIds, g \in Bgs :
         /\ observers' = Del(observers, oid)
         /\ Spawn(g, [NoCmd EXCEPT !.name = "unobserve_property", !.id = oid])
    /\ UNCHANGED <<closed, receiver, conn, wire, requests, listeners,
                   listenerMu, result, wpc, wreq, rpc, rframe, tasks, errs,
                   panic, nframes>>

\* ------------------------------------------------------------------- Next
\* The steps of the goroutines the client runs: requestSend past its guard,
\* Close past its first statement, the writer loop, the reader loop.
Internal ==
    \/ \E p \in Procs :
         \/ RequestSendHandoff(p)
         \/ RequestSendPanic(p)
    \/ WriterExit
    \/ WriterRegister
    \/ WriterWrite
    \/ ReaderRead
    \/ ReaderReadError
    \/ ReaderDecodeError
    \/ ReaderEOF
    \/ ReaderCloseReceiver
    \/ ReaderCloseConn

Closing == \E c \in Callers : CloseReceiver(c) \/ CloseConn(c)

\* Every public operation, from every caller.
Next ==
    \/ \E c \in Callers :
         \/ Request(c)
         \/ RequestSync(c)
         \/ RegisterListener(c)
         \/ UnregisterListener(c)
         \/ ObserveProperty(c)
         \/ ObserveStore(c)
         \/ UnobserveProperty(c)
         \/ Close(c)
    \/ \E g \in Bgs : RequestSendCheck(g)
    \/ Closing
    \/ Internal

Spec == Init /\ [][Next]_vars

\* Callers that use Request, RequestSync and Close only.
NextReq ==
    \/ \E c \in Callers : Request(c) \/ RequestSync(c) \/ Close(c)
    \/ Closing
    \/ Internal

SpecReq == Init /\ [][NextReq]_vars

\* One caller that uses the listener and observer operations only.
SubCallers == {"c1"}

NextSub ==
    \/ \E c \in SubCallers :
         \/ RegisterListener(c)
         \/ UnregisterListener(c)
         \/ ObserveProperty(c)
         \/ ObserveStore(c)
         \/ UnobserveProperty(c)
    \/ \E g \in Bgs : RequestSendCheck(g)
    \/ Internal

SpecSub == Init /\ [][NextSub]_vars

\* The Go scheduler runs every goroutine that can take a step; the remote
\* process keeps sending while the reader may read.
Fairness ==
    /\ \A p \in Procs :
         WF_vars(RequestSendHandoff(p)) /\ WF_vars(RequestSendPanic(p))
    /\ \A c \in Callers : WF_vars(CloseReceiver(c)) /\ WF_vars(CloseConn(c))
    /\ WF_vars(WriterExit) /\ WF_vars(WriterRegister) /\ WF_vars(WriterWrite)
    /\ WF_vars(ReaderRead) /\ WF_vars(ReaderReadError)
    /\ WF_vars(ReaderCloseReceiver) /\ WF_vars(ReaderCloseConn)

FairSpecReq == Init /\ [][NextReq]_vars /\ Fairness

\* Callers that use Request and RequestSync and never call Close(), under the
\* same scheduling.
NextEOF ==
    \/ \E c \in Callers : Request(c) \/ RequestSync(c)
    \/ Internal

FairSpecEOF == Init /\ [][NextEOF]_vars /\ Fairness

\* The client after one RegisterListener("e2", c1) on a fresh client: the
\* map exists and holds that listener; no request was made for it.
InitListening ==
    /\ closed = FALSE
    /\ receiver = "open"
    /\ conn = "open"
    /\ wire = <<>>
    /\ requests = EmptyMap
    /\ listeners = [isNil |-> FALSE, m |-> Put(EmptyMap, "e2", "c1")]
    /\ listenerMu = "free"
    /\ observers = EmptyMap
    /\ pc = [p \in Procs |-> "idle"]
    /\ op = [p \in Procs |-> NoOp]
    /\ req = [p \in Procs |-> NoReq]
    /\ result = [p \in Procs |-> NoResult]
    /\ wpc = "recv"
    /\ wreq = NoWreq
    /\ rpc = "read"
    /\ rframe = NoFrame
    /\ tasks = {}
    /\ errs = 0
    /\ panic = "none"
    /\ nops = 0
    /\ nframes = 0

SpecListening == InitListening /\ [][NextSub]_vars

\* ----------------------------------------------------------------- claims

\* C1: every registry entry belongs to a request whose caller still waits for
\* its first reply on an open channel, so a request that got its reply has no
\* entry left (delivery and removal are one step), a later frame with its id
\* finds none, and the dispatcher never sends on a reply channel it closed.
C1_SingleDelivery ==
    /\ panic # "send on closed channel: responseChan"
    /\ \A id \in DOMAIN requests :
         /\ requests[id].chan = "open"
         /\ pc[requests[id].p] = "wait"
         /\ req[requests[id].p].id = id

\* The only request ever made got an error reply; the last frame read is a
\* second, different reply with the same id, and the caller's result still
\* is the first one.
C1_Witness ==
    \E p \in Callers :
       /\ nops = 1 /\ nframes = 2 /\ errs = 0 /\ pc[p] = "idle"
       /\ result[p].err.kind = "MpvError"
       /\ rframe.event = "" /\ rframe.rid = result[p].rid
       /\ rframe.error = "success"
       /\ requests = EmptyMap

\* C2: whichever order replies come in, a caller leaves its wait only with
\* the response that carries its own request id, and that step leaves every
\* other waiting caller and every other registry entry as they were.
C2_MatchedById ==
    [][\A p \in Procs :
         (pc[p] = "wait" /\ pc'[p] # "wait") =>
            /\ rframe'.rid = req[p].id
            /\ result'[p].rid = req[p].id \/ op[p].name = "go Request"
            /\ \A q \in Procs \ {p} : pc'[q] = pc[q] /\ req'[q] = req[q]
            /\ \A id \in DOMAIN requests \ {req[p].id} :
                 id \in DOMAIN requests' /\ requests'[id] = requests[id]]_vars

\* 7 was written before 8; the reply to 8 came first: its caller has
\* returned with it while the 7-caller still waits, its entry in place.
C2_Witness ==
    \E p, q \in Callers :
       /\ Len(wire) = 2 /\ wire[1].id = 7 /\ wire[2].id = 8
       /\ pc[q] = "idle" /\ result[q].rid = 8
       /\ pc[p] = "wait" /\ req[p].id = 7
       /\ 7 \in DOMAIN requests /\ requests[7].p = p

\* C3: once a call of Close() has returned the closed flag is set, and in no
\* later step does any goroutine get past requestSend's guard: nothing is
\* handed to the writer or written, and an operation that returns returns
\* ErrClosed.
C3_ClosedRejects ==
    /\ [](CloseReturned => closed)
    /\ [][CloseReturned =>
            /\ \A p \in Procs : pc'[p] = "send" => pc[p] = "send"
            /\ nops' # nops =>
                 /\ UNCHANGED <<wire, wpc, wreq, requests>>
                 /\ \A c \in Callers :
                      result'[c] # result[c] => result'[c] = ClosedResult]_vars

\* Close() has returned and a Request made after it returned ErrClosed;
\* nothing was ever written.
C3_Witness ==
    \E c \in Callers :
       /\ CloseReturned /\ nops = 2 /\ pc[c] = "idle"
       /\ result[c] = ClosedResult /\ wire = <<>>

\* C4 (as claimed): no Request ever sends on the closed request queue.
C4_NoSendOnClosedQueue == panic # "send on closed channel: c.receiver"

\* C5 (as claimed): close-down triggered more than once closes the request
\* queue once, the later trigger being harmless.
C5_ClosedOnce == panic # "close of closed channel: c.receiver"

\* C6 (as claimed): an event name gets its listener only through a call that
\* issued enable_event for it.
C6_EnableIssued ==
    [][\A e \in Events :
         (e \notin DOMAIN listeners.m /\ e \in DOMAIN listeners'.m) =>
            \E c \in Callers :
               /\ pc[c] = "wait"
               /\ req[c].cmd.name = "enable_event"
               /\ req[c].cmd.event = e]_vars

\* C7 (as claimed): a call blocked on its reply channel, its request in the
\* registry, when the client is closed eventually returns.
C7_BlockedReturns ==
    \A p \in Callers :
       (/\ pc[p] = "wait" /\ closed /\ Running
        /\ req[p].id \in DOMAIN requests /\ requests[req[p].id].p = p)
          ~> (pc[p] # "wait" \/ ~Running)

\* C8: the Request that a reply wakes returns (nil, MpvError{error}) when the
\* reply's error is not "success", and (data, nil) when it is.
C8_ReplyResult ==
    [][\A p \in Callers :
         (pc[p] = "wait" /\ pc'[p] # "wait"
             /\ op[p].name \in {"Request", "RequestSync"}) =>
            IF rframe'.error # "success"
            THEN /\ result'[p].val = "nil"
                 /\ result'[p].err = MpvError(rframe'.error)
            ELSE /\ result'[p].val = rframe'.data
                 /\ result'[p].err = NilErr]_vars

\* The last reply read carries "property not found" (and a data field); the
\* caller it woke holds that error and no value.
C8_Witness ==
    \E p \in Callers :
       /\ rframe.event = "" /\ rframe.error = "property not found"
       /\ rframe.data = "50"
       /\ pc[p] = "idle" /\ result[p].rid = rframe.rid /\ nops = 1
       /\ result[p].err = MpvError("property not found")
       /\ result[p].val = "nil"

\* C9: the step in which dispatch invokes a listener or an observer leaves
\* the reader at its next read, holding no lock; the invocation is a task of
\* its own, which the reader never waits for.
C9_CallbackOffReader ==
    [][tasks' # tasks =>
         /\ rpc' = "read"
         /\ listenerMu' = listenerMu
         /\ \E t \in tasks' : tasks' = tasks \cup {t} /\ t.frame = nframes']_vars

\* The callback invoked for frame 1 has not returned; frame 2, a reply, was
\* read and delivered to the caller that waited for it.
C9_Witness ==
    \E t \in tasks, p \in Callers :
       /\ t.frame = 1 /\ nframes = 2 /\ errs = 0 /\ Len(wire) = 1
       /\ rframe.event = "" /\ rframe.rid = wire[1].id
       /\ pc[p] = "idle" /\ result[p].rid = rframe.rid

\* C10: the step in which RegisterListener or ObserveProperty gets an error
\* reply to its enable_event / observe_property returns that error and leaves
\* the listener and the observer registry unchanged (as does a call refused
\* with ErrClosed), and while RegisterListener waits for its enable_event the
\* event has no listener.
C10_FailedSubscribe ==
    /\ [](\A c \in Callers :
            (op[c].name = "RegisterListener" /\ pc[c] \in {"send", "wait"}) =>
               listenerMu = c /\ op[c].event \notin DOMAIN listeners.m)
    /\ [][\A c \in Callers :
            /\ (/\ pc[c] = "wait" /\ pc'[c] = "idle"
                /\ op[c].name \in {"RegisterListener", "ObserveProperty"}
                /\ rframe'.error # "success") =>
                  /\ result'[c].err = MpvError(rframe'.error)
                  /\ UNCHANGED <<listeners, observers>>
            /\ (/\ pc[c] = "idle" /\ pc'[c] = "idle"
                /\ result'[c] # result[c]
                /\ result'[c].err.kind # "nil") =>
                  UNCHANGED <<listeners, observers>>]_vars

\* RegisterListener's enable_event got an error reply: the call returned the
\* error and the event has no listener.
C10_Witness ==
    \E c \in Callers :
       /\ Len(wire) = 1 /\ wire[1].cmd.name = "enable_event"
       /\ rframe.event = "" /\ rframe.rid = wire[1].id
       /\ pc[c] = "idle" /\ result[c].err = MpvError(rframe.error)
       /\ ~listeners.isNil /\ wire[1].cmd.event \notin DOMAIN listeners.m

\* C11: a call of UnregisterListener / UnobserveProperty is one step of its
\* caller, who is not left waiting: after it the event / id has no
\* registration, in an open and in a closed client alike; the outcome of the
\* disable_event / unobserve_property request changes neither registry; and a
\* frame invokes only a callback that is registered under the frame's event or
\* id when it is dispatched.
C11_RemovedUnconditionally ==
    [][/\ \A g \in Bgs :
            (pc[g] = "idle" /\ pc'[g] = "check") =>
               /\ req'[g].cmd.name = "disable_event" =>
                     req'[g].cmd.event \notin DOMAIN listeners'.m
               /\ req'[g].cmd.name = "unobserve_property" =>
                     req'[g].cmd.id \notin DOMAIN observers'
               /\ \A c \in Callers : pc[c] = "idle" => pc'[c] = "idle"
       /\ \A g \in Bgs :
            (pc[g] \in {"check", "send", "wait"} /\ pc'[g] = "idle") =>
               UNCHANGED <<listeners, observers>>
       /\ \A t \in tasks' \ tasks :
            IF rframe'.event = "property-change"
            THEN /\ rframe'.id \in DOMAIN observers
                 /\ observers[rframe'.id] = t.cb
            ELSE /\ rframe'.event \in DOMAIN listeners.m
                 /\ listeners.m[rframe'.event] = t.cb]_vars

\* The listener for e1 was registered and invoked for frame 1, then removed;
\* the call has returned while its disable_event is unanswered, and frame 2,
\* again e1, invoked nothing.
C11_Witness ==
    /\ nops = 2 /\ nframes = 2 /\ errs = 0 /\ rpc = "read" /\ ~closed
    /\ ~listeners.isNil /\ listeners.m = EmptyMap
    /\ \A c \in Callers : pc[c] = "idle"
    /\ \E g \in Bgs :
          /\ pc[g] \in {"check", "send", "wait"}
          /\ req[g].cmd.name = "disable_event" /\ req[g].cmd.event = "e1"
    /\ rframe.event = "e1"
    /\ \E t \in tasks : tasks = {t} /\ t.frame = 1

\* C12: the step that dispatches a property-change frame whose id has no
\* observer invokes no callback, reports no error and leaves the observer,
\* listener and request registries as they were; the reader is back at its
\* read.
C12_UnmatchedDiscarded ==
    [][(/\ nframes' = nframes + 1
        /\ rframe'.event = "property-change"
        /\ rframe'.id \notin DOMAIN observers
        /\ rframe' # rframe \/ (errs' = errs /\ rpc' = "read")) =>
          /\ UNCHANGED <<tasks, errs, observers, listeners, requests>>
          /\ rpc' = "read"]_vars

\* Observer 1 is registered (frame 1 was the reply to its observe_property);
\* frame 2, a property-change for id 2, invoked nothing.
C12_Witness ==
    /\ nops = 1 /\ nframes = 2 /\ errs = 0 /\ rpc = "read" /\ ~closed
    /\ DOMAIN observers = {1}
    /\ rframe.event = "property-change" /\ rframe.id = 2
    /\ tasks = {}

C14_NoLockAcrossWait ==
    \A c \in Callers :
       ~(listenerMu = c /\ pc[c] = "wait" /\ rpc = "lock")

\* C15 (as claimed): once Close() has released the connection, the writer
\* loop and the reader loop both terminate (unless the program panics first).
C15_LoopsTerminate ==
    (conn = "closed" /\ Running)
       ~> ((wpc = "done" /\ rpc = "done") \/ ~Running)

\* C16: a step of the reader that reports an error (a failed read that is not
\* io.EOF, a line that does not decode) dispatches nothing: the closed flag,
\* the three registries, every caller and the callbacks started are as
\* before, and the reader is back at its read.
C16_ReadErrorsReported ==
    [][(errs' # errs /\ wpc' = wpc) =>
          /\ rpc = "read" /\ rpc' = "read"
          /\ UNCHANGED <<closed, receiver, conn, requests, listeners,
                         observers, tasks, pc, result, rframe>>]_vars

\* Frame 1 was an error of the reader (the writer never ran); frame 2 was
\* dispatched and invoked a listener.
C16_Witness ==
    /\ nops = 1 /\ wire = <<>> /\ wpc = "recv" /\ \A p \in Procs : pc[p] = "idle"
    /\ errs = 1 /\ nframes = 2 /\ ~closed /\ rpc = "read"
    /\ \E t \in tasks : tasks = {t} /\ t.frame = 2

\* C17: a step of the writer that reports an error (the request does not
\* serialize, or a write on the connection fails) leaves the request's caller
\* blocked on its reply channel, signals no caller, changes neither the closed
\* flag nor the queue nor the connection, puts nothing on the wire, and takes
\* the writer back to receiving the next request.
C17_WriteErrorsReported ==
    [][(errs' # errs /\ wpc' # wpc) =>
          /\ wpc \in {"marshal", "write"} /\ wpc' = "recv"
          /\ pc[wreq.p] = "wait"
          /\ UNCHANGED <<pc, result, closed, receiver, conn, wire, rpc>>]_vars

\* Request 7 failed in the writer (the one error so far; nothing is on the
\* wire) and its caller is still blocked; the writer is now handling
\* request 8.
C17_Witness ==
    \E p \in Callers :
       /\ pc[p] = "wait" /\ req[p].id = 7
       /\ errs = 1 /\ nframes = 0 /\ wire = <<>> /\ ~closed
       /\ wpc \in {"marshal", "write"} /\ wreq.req.id = 8

\* C18: a request whose line is on the wire, and whose caller has not got
\* its reply yet, is in the request registry under its id, with its caller and
\* an open reply channel: the writer registered it before it wrote it, so a
\* reply that follows the write at once finds the entry.
C18_RegisteredBeforeWritten ==
    \A p \in Procs :
       (pc[p] = "wait" /\ req[p].id \in WrittenIds) =>
          /\ req[p].id \in DOMAIN requests
          /\ requests[req[p].id] = [p |-> p, chan |-> "open"]

\* The caller's request has just been written, no frame has been read yet,
\* and its entry is in the registry.
C18_Witness ==
    \E p \in Callers :
       /\ pc[p] = "wait" /\ wire = <<req[p]>> /\ nframes = 0
       /\ wpc = "recv" /\ req[p].id \in DOMAIN requests

\* C19 (as claimed): when an event has a listener and both its enable_event
\* and its disable_event are on the wire (the caller unregistered it and then
\* registered it again), disable_event was written before enable_event.
C19_DisableBeforeEnable ==
    \A e \in DOMAIN listeners.m : \A i, j \in 1..Len(wire) :
       (/\ wire[i].cmd.name = "enable_event" /\ wire[i].cmd.event = e
        /\ wire[j].cmd.name = "disable_event" /\ wire[j].cmd.event = e)
          => j < i

\* C20 (as claimed): once the success reply to observe_property(X) has been
\* dispatched, the dispatch of a property-change frame with id X invokes the
\* observer passed to that ObserveProperty call.
C20_NotificationsDelivered ==
    [][\A c \in Callers :
         (/\ pc[c] = "store"
          /\ nframes' = nframes + 1 /\ errs' = errs /\ rpc' = "read"
          /\ rframe'.event = "property-change"
          /\ rframe'.id = op[c].id) =>
            \E t \in tasks' \ tasks : t.cb = op[c].cb]_vars

====
